---- MODULE Spec2Model ----
(***************************************************************************)
(* Model of neboder (src/src/main.rs): the bounded-concurrency download    *)
(* engine.  main fetches the listing page, prepares the output directory,  *)
(* creates a semaphore with num_of_lanes permits, and for every link of    *)
(* the BTreeSet acquires one permit and spawns a task running              *)
(* download_file_to; afterwards it joins the tasks and prints each result. *)
(*                                                                         *)
(* Granularity: one action per stretch of code between two suspension      *)
(* points (.await).  The only objects shared between tasks are the         *)
(* semaphore (atomic), the file system and the JoinSet (owned by main).    *)
(***************************************************************************)
EXTENDS Integers, Sequences, FiniteSets, TLC

\* ------------------------------------------------------------------ bounds
\* num_of_lanes is a u8; the model draws it from 0..MaxLanes.
MaxLanes == 2
\* Largest number of anchors, and of names, the listing page holds.
MaxAnchors == 2
\* Largest Content-Length a response declares.
MaxTotal == 1
\* Largest chunk the body stream yields.
MaxChunk == 2
\* Largest number of bytes a response body delivers.
MaxBody == 2

Urls == {1, 2}
Names == {1, 2}

\* ------------------------------------------------------------------ values
\* struct Link { url, name }
Link == [url : Urls, name : Names]

\* derive(PartialOrd, Ord) on Link: lexicographic on (url, name); the order
\* in which `for link in _links` walks the BTreeSet.
LinkLess(a, b) == \/ a.url < b.url
                  \/ a.url = b.url /\ a.name < b.name

\* resp.content_length() is an Option<u64>; NoLength is None.
NoLength == -1

\* The outcomes of download_file_to, as printed by "{r:?}".  The `?`
\* operator hands the underlying error on unchanged: a reqwest::Error names
\* the url it was talking to, a std::io::Error names nothing, and none of
\* them carries link.name.
NoUrl == 0
Ok == [kind |-> "Ok", url |-> NoUrl]
ErrRequest(l) == [kind |-> "Err(request)", url |-> l.url]
ErrCreate(l) == [kind |-> "Err(create)", url |-> NoUrl]
ErrStream(l) == [kind |-> "Err(stream)", url |-> l.url]
ErrWrite(l) == [kind |-> "Err(write)", url |-> NoUrl]
NoResult == [kind |-> "none", url |-> NoUrl]
IsFailure(r) == r.kind \notin {"Ok", "none"}

\* A file of the output directory: absent, or its bytes.  Byte [u, k] is the
\* k-th byte of the body served at url u; Hole is a byte never written
\* (a gap left by writing past the end of a truncated file); Old is content
\* that was there before the run.
Hole == [u |-> 0, k |-> 0]
Old == [u |-> 0, k |-> 1]
Absent == [exists |-> FALSE, data |-> <<>>]
FileOf(bytes) == [exists |-> TRUE, data |-> bytes]

Min(a, b) == IF a <= b THEN a ELSE b
Max(a, b) == IF a >= b THEN a ELSE b

VARIABLES
    mainpc,      \* where main is
    lanes,       \* _args.num_of_lanes
    page,        \* the listing page: what the two selectors select from it
    links,       \* _links: the set collect_links returned
    dirState,    \* the output path: "absent", "dir" or "file"
    available,   \* permits left in the semaphore
    files,       \* the files of the output directory, by name
    pc,          \* per link: where its Transfer Unit is
    permit,      \* per link: the task holds its OwnedSemaphorePermit
    declared,    \* per link: resp.content_length()
    total,       \* per link: total_size
    downloaded,  \* per link: downloaded
    position,    \* per link: the progress bar's position
    cursor,      \* per link: the write position of its File handle
    chunk,       \* per link: length of the chunk received and not yet written
    result,      \* per link: what download_file_to returned
    order,       \* the links whose tasks have completed, first completed first
    results      \* the lines main printed, in order

vars == <<mainpc, lanes, page, links, dirState, available, files, pc, permit,
          declared, total, downloaded, position, cursor, chunk, result,
          order, results>>

unitVars == <<pc, permit, declared, total, downloaded, position, cursor,
              chunk, result>>

Joined == {l \in links : pc[l] = "joined"}

\* ------------------------------------------------------------ Link Source
\* Iterator::zip: pairs up to the end of the shorter sequence.
RECURSIVE Zip(_, _)
Zip(U, M) ==
    IF U = <<>> \/ M = <<>> THEN <<>>
    ELSE <<[url |-> Head(U), name |-> Head(M)]>> \o Zip(Tail(U), Tail(M))

\* collect::<BTreeSet<Link>>(): one insert per item; an equal item is
\* already there.
RECURSIVE CollectSet(_)
CollectSet(items) ==
    IF items = <<>> THEN {}
    ELSE {Head(items)} \cup CollectSet(Tail(items))

\* Faulty variant of collect_links: the names are paired from the back.
RECURSIVE Reverse(_)
Reverse(q) == IF q = <<>> THEN <<>> ELSE Append(Reverse(Tail(q)), Head(q))
collect_links_NamesReversed(doc) ==
    CollectSet(Zip(doc.hrefs, Reverse(doc.names)))

\* urls.zip(names).map(|(url, name)| Link { url, name }).collect()
collect_links(doc) == CollectSet(Zip(doc.hrefs, doc.names))

\* ------------------------------------------------------------------- Init
SeqsUpTo(S, n) == UNION {[1..k -> S] : k \in 0..n}

\* The pages the listing url may serve: the hrefs of the anchors
\* ".nidb-album a" and the inner html of ".nidb-album p > strong", each in
\* document order.
Pages == [hrefs : SeqsUpTo(Urls, MaxAnchors), names : SeqsUpTo(Names, MaxAnchors)]

\* The state main starts in, for the given inputs: the values of -n, the
\* pages the listing url may serve, what the output path may be, and what
\* the output directory may hold.
InitOver(laneValues, pages, dirStates, fileStates) ==
    /\ mainpc = "fetch"
    /\ lanes \in laneValues
    /\ page \in pages
    /\ links = {}
    /\ dirState \in dirStates
    /\ available = 0
    /\ files \in fileStates
    /\ pc = <<>>
    /\ permit = <<>>
    /\ declared = <<>>
    /\ total = <<>>
    /\ downloaded = <<>>
    /\ position = <<>>
    /\ cursor = <<>>
    /\ chunk = <<>>
    /\ result = <<>>
    /\ order = <<>>
    /\ results = <<>>

Init ==
    InitOver(0..MaxLanes, Pages, {"absent", "dir", "file"},
             [Names -> {Absent, FileOf(<<Old>>)}])

\* The scenario of a listing page with three distinct links (listed in
\* ascending order: the set forgets the order anyway), one lane, an output
\* path that is absent or a directory, and an empty output directory.
ThreeLinkPages ==
    {p \in [hrefs : [1..3 -> Urls], names : [1..3 -> Names]] :
        \A i, j \in 1..3 :
            i < j => LinkLess(Zip(p.hrefs, p.names)[i], Zip(p.hrefs, p.names)[j])}

InitThreeLinks ==
    InitOver({1}, ThreeLinkPages, {"absent", "dir"}, {[n \in Names |-> Absent]})

\* ------------------------------------------------------------ file system
\* What a write of `bytes` at offset `off` makes of a file holding `data`:
\* a write past the end leaves a gap, a write inside overwrites in place.
WriteAt(data, off, bytes) ==
    LET padded == IF Len(data) >= off
                  THEN data
                  ELSE data \o [i \in 1..(off - Len(data)) |-> Hole]
        newLen == Max(Len(padded), off + Len(bytes))
    IN  [i \in 1..newLen |->
            IF i > off /\ i <= off + Len(bytes) THEN bytes[i - off]
            ELSE padded[i]]

\* The n bytes of the body at url u that follow the first `from` ones.
BodyBytes(u, from, n) == [i \in 1..n |-> [u |-> u, k |-> from + i]]

\* -------------------------------------------------------------- semaphore
\* Faulty variants of CanAcquire: an acquire that never waits, and one that
\* leaves the last permit unused.
CanAcquire_NeverWaits(avail) == TRUE
CanAcquire_OffByOne(avail) == avail > 1

\* acquire_owned().await returns once a permit is there to take.
CanAcquire(avail) == avail > 0

\* Faulty variant of DropsPermit: the permit goes back on the success path
\* only.
DropsPermit_OnlyOnOk(r) == r.kind = "Ok"

\* `let _permit = permit;` lives to the end of the spawned block: the permit
\* is dropped, and so returned to the semaphore, whatever download_file_to
\* returned.
DropsPermit(r) == TRUE

\* --------------------------------------------------------------- progress
\* total_size = resp.content_length().unwrap_or(0)
UnwrapOr0(cl) == IF cl = NoLength THEN 0 ELSE cl

\* Faulty variant of NewPosition: the clamp is left out.
NewPosition_NoClamp(done, len, tot) == done + len

\* new = min(downloaded + chunk.len(), total_size)
NewPosition(done, len, tot) == Min(done + len, tot)

\* ------------------------------------------------------------------- main
\* Faulty variant of Reported: the newest result is put first.
Reported_Prepends(rs, l, r) == <<[link |-> l, out |-> r]>> \o rs

\* Faulty variant of Reported: only the successes are printed.
Reported_DropsFailures(rs, l, r) ==
    IF IsFailure(r) THEN rs ELSE Append(rs, [link |-> l, out |-> r])

\* println!("Result of download: {r:?}")
Reported(rs, l, r) == Append(rs, [link |-> l, out |-> r])

Queued == {l \in links : pc[l] = "queued"}

\* The link the for loop takes next: the least of those left.
IsNextLink(l) == l \in Queued /\ \A m \in Queued : m = l \/ LinkLess(l, m)

\* Faulty variant of OnSetupError: the error is swallowed and main goes on.
OnSetupError_GoesOn == "submit"

\* `?` in main: a failed setup step makes main return the error.
OnSetupError == "failed"

\* client.get(listing).send().await?.text().await?, then collect_links
FetchListing ==
    /\ mainpc = "fetch"
    /\ \/ /\ mainpc' = "mkdir"
          /\ links' = collect_links(page)
          /\ pc' = [l \in links' |-> "queued"]
          /\ permit' = [l \in links' |-> FALSE]
          /\ declared' = [l \in links' |-> NoLength]
          /\ total' = [l \in links' |-> 0]
          /\ downloaded' = [l \in links' |-> 0]
          /\ position' = [l \in links' |-> 0]
          /\ cursor' = [l \in links' |-> 0]
          /\ chunk' = [l \in links' |-> 0]
          /\ result' = [l \in links' |-> NoResult]
       \/ /\ mainpc' = OnSetupError
          /\ UNCHANGED <<links, unitVars>>
    /\ UNCHANGED <<lanes, page, dirState, available, files, order, results>>

\* if !dir.exists() { create(&dir).await? }, then Semaphore::new(num_of_lanes)
PrepareDir ==
    /\ mainpc = "mkdir"
    /\ \/ /\ dirState = "absent"
          /\ dirState' = "dir"
          /\ mainpc' = "submit"
          /\ available' = lanes
       \/ /\ dirState = "absent"
          /\ mainpc' = OnSetupError
          /\ UNCHANGED <<dirState, available>>
       \/ /\ dirState # "absent"
          /\ mainpc' = "submit"
          /\ available' = lanes
          /\ UNCHANGED dirState
    /\ UNCHANGED <<lanes, page, links, files, unitVars, order, results>>

\* One turn of `for link in _links`: acquire a permit, spawn the task.
Submit(l) ==
    /\ mainpc = "submit"
    /\ l \in links
    /\ IsNextLink(l)
    /\ CanAcquire(available)
    /\ available' = available - 1
    /\ permit' = [permit EXCEPT ![l] = TRUE]
    /\ pc' = [pc EXCEPT ![l] = "request"]
    /\ UNCHANGED <<mainpc, lanes, page, links, dirState, files, declared, total,
                   downloaded, position, cursor, chunk, result, order, results>>

\* The for loop is through.
EndSubmit ==
    /\ mainpc = "submit"
    /\ Queued = {}
    /\ mainpc' = "collect"
    /\ UNCHANGED <<lanes, page, links, dirState, available, files, unitVars, order, results>>

\* Faulty variant of CanJoin: results are taken while links are submitted.
CanJoin_WhileSubmitting(mpc) == mpc \in {"submit", "collect"}

\* `while let Some(r) = join_set.join_next().await` comes after the for
\* loop: main joins only once every link is submitted.
CanJoin(mpc) == mpc = "collect"

\* Faulty variant of AfterJoin: a failed transfer makes main return it.
AfterJoin_Propagates(r) == IF IsFailure(r) THEN "failed" ELSE "collect"

\* The body of the while loop only prints: whatever r is, main joins on.
AfterJoin(r) == "collect"

\* join_set.join_next().await yields the tasks in the order they complete
\* (tokio's JoinSet): the first completed of those not yet joined.
IsNextJoined(l) ==
    /\ Cardinality(Joined) < Len(order)
    /\ l = order[Cardinality(Joined) + 1]

JoinNext(l) ==
    /\ CanJoin(mainpc)
    /\ l \in links
    /\ pc[l] = "finished"
    /\ IsNextJoined(l)
    /\ results' = Reported(results, l, result[l])
    /\ pc' = [pc EXCEPT ![l] = "joined"]
    /\ mainpc' = AfterJoin(result[l])
    /\ UNCHANGED <<lanes, page, links, dirState, available, files, permit,
                   declared, total, downloaded, position, cursor, chunk, result,
                   order>>

\* join_next() yields None: the set is empty; main returns Ok(()).
EndCollect ==
    /\ mainpc = "collect"
    /\ \A l \in links : pc[l] = "joined"
    /\ mainpc' = "done"
    /\ UNCHANGED <<lanes, page, links, dirState, available, files, unitVars, order, results>>

\* ---------------------------------------------------------- Transfer Unit
\* download_file_to returns r; the spawned block ends and its locals drop.
Return(l, r) ==
    /\ result' = [result EXCEPT ![l] = r]
    /\ pc' = [pc EXCEPT ![l] = "finished"]
    /\ permit' = [permit EXCEPT ![l] = ~DropsPermit(r)]
    /\ available' = IF DropsPermit(r) THEN available + 1 ELSE available
    /\ order' = Append(order, l)

\* Faulty variant of AfterFailedRequest: the file is created before the
\* request is sent.
AfterFailedRequest_Truncates(fs, l) == [fs EXCEPT ![l.name] = FileOf(<<>>)]

\* What a failed request leaves of the files: File::create comes after
\* send().await?, so nothing has been touched.
AfterFailedRequest(fs, l) == fs

\* client.get(&link.url).headers(..).send().await?, then the progress bar
SendRequest(l) ==
    /\ l \in links
    /\ pc[l] = "request"
    /\ \/ \E cl \in {NoLength} \cup (0..MaxTotal) :
            /\ declared' = [declared EXCEPT ![l] = cl]
            /\ total' = [total EXCEPT ![l] = UnwrapOr0(cl)]
            /\ pc' = [pc EXCEPT ![l] = "create"]
            /\ UNCHANGED <<permit, available, result, order, files>>
       \/ /\ Return(l, ErrRequest(l))
          /\ files' = AfterFailedRequest(files, l)
          /\ UNCHANGED <<declared, total>>
    /\ UNCHANGED <<mainpc, lanes, page, links, dirState, downloaded,
                   position, cursor, chunk, results>>

\* File::create(dir.join(&link.name)).await?
CreateFile(l) ==
    /\ l \in links
    /\ pc[l] = "create"
    /\ \/ /\ dirState = "dir"
          /\ files' = [files EXCEPT ![l.name] = FileOf(<<>>)]
          /\ pc' = [pc EXCEPT ![l] = "stream"]
          /\ UNCHANGED <<permit, available, result, order>>
       \/ /\ Return(l, ErrCreate(l))
          /\ UNCHANGED files
    /\ UNCHANGED <<mainpc, lanes, page, links, dirState, declared, total,
                   downloaded, position, cursor, chunk, results>>

\* stream.next().await: a chunk, an error, or the end of the body
NextChunk(l) ==
    /\ l \in links
    /\ pc[l] = "stream"
    /\ \/ \E n \in 1..Min(MaxChunk, MaxBody - cursor[l]) :
            /\ chunk' = [chunk EXCEPT ![l] = n]
            /\ pc' = [pc EXCEPT ![l] = "write"]
            /\ UNCHANGED <<permit, available, result, order, position>>
       \/ /\ Return(l, ErrStream(l))
          /\ UNCHANGED <<chunk, position>>
       \/ /\ position' = [position EXCEPT ![l] = total[l]]
          /\ Return(l, Ok)
          /\ UNCHANGED chunk
    /\ UNCHANGED <<mainpc, lanes, page, links, dirState, files, declared, total,
                   downloaded, cursor, results>>

\* file.write_all(&chunk).await?, then downloaded and pb.set_position
WriteChunk(l) ==
    /\ l \in links
    /\ pc[l] = "write"
    /\ \/ /\ files' = [files EXCEPT ![l.name] =
                FileOf(WriteAt(@.data, cursor[l],
                               BodyBytes(l.url, cursor[l], chunk[l])))]
          /\ cursor' = [cursor EXCEPT ![l] = @ + chunk[l]]
          /\ downloaded' = [downloaded EXCEPT ![l] =
                NewPosition(@, chunk[l], total[l])]
          /\ position' = [position EXCEPT ![l] =
                NewPosition(downloaded[l], chunk[l], total[l])]
          /\ chunk' = [chunk EXCEPT ![l] = 0]
          /\ pc' = [pc EXCEPT ![l] = "stream"]
          /\ UNCHANGED <<permit, available, result, order>>
       \/ /\ Return(l, ErrWrite(l))
          /\ UNCHANGED <<files, cursor, downloaded, position, chunk>>
    /\ UNCHANGED <<mainpc, lanes, page, links, dirState, declared, total, results>>

\* ------------------------------------------------------------------- Next
Next ==
    \/ FetchListing
    \/ PrepareDir
    \/ EndSubmit
    \/ EndCollect
    \/ \E l \in Link : Submit(l)
    \/ \E l \in Link : JoinNext(l)
    \/ \E l \in Link : SendRequest(l)
    \/ \E l \in Link : CreateFile(l)
    \/ \E l \in Link : NextChunk(l)
    \/ \E l \in Link : WriteChunk(l)

Spec == Init /\ [][Next]_vars

\* The runtime keeps polling whatever task is ready, and every request, read
\* and write comes back: a step that can be taken is taken.
FairSpec == Spec /\ WF_vars(Next)

\* The same program, run on the three-link scenario.
SpecThreeLinks == InitThreeLinks /\ [][Next]_vars

\* ----------------------------------------------------------------- claims
Executing == {l \in links : pc[l] \in {"request", "create", "stream", "write"}}
Finished == {l \in links : pc[l] \in {"finished", "joined"}}
Holders == {l \in links : permit[l]}
SemaphoreExists == mainpc \in {"submit", "collect", "done"}

\* C1: for every cap C >= 1 and every link set of size N, the number of
\* Transfer Units spawned and not yet finished is at most min(C, N).
C1_BoundedConcurrency ==
    lanes >= 1 => Cardinality(Executing) <= Min(lanes, Cardinality(links))

\* The cap binds: one lane, one unit running, another link kept waiting.
C1_Witness ==
    /\ lanes = 1
    /\ Cardinality(Executing) = 1
    /\ Queued # {}

\* When main has returned Ok, every link has been joined and has exactly one
\* printed line, which holds the outcome of its own unit.
C2_Report ==
    mainpc = "done" =>
        /\ Len(results) = Cardinality(links)
        /\ \A l \in links :
              /\ pc[l] = "joined"
              /\ Cardinality({i \in DOMAIN results : results[i].link = l}) = 1
              /\ \E i \in DOMAIN results :
                    results[i] = [link |-> l, out |-> result[l]]

\* C2: each link is spawned exactly once (a unit that has left the queue
\* never returns to it) and, when the orchestrator terminates (the join
\* loop ends and main returns Ok), every link has exactly one printed
\* result, which is the outcome of its own unit, failures included: the
\* report is as long as the link set.
C2_OneResultEach ==
    /\ []C2_Report
    /\ [][\A l \in links : pc[l] # "queued" => pc'[l] # "queued"]_vars

\* main is through with two links, one of which failed.
C2_Witness ==
    /\ mainpc = "done"
    /\ Len(results) = 2
    /\ \E i, j \in DOMAIN results :
          IsFailure(results[i].out) /\ results[j].out = Ok

\* C3: once a unit has failed, every link of the batch still gets submitted
\* and finishes, for every cap C >= 1.
C3_FailureDoesNotBlock ==
    (lanes >= 1 /\ \E l \in links : IsFailure(result[l]))
        ~> (\A m \in links : m \in Finished)

\* One lane: the first link failed, and the link behind it, which needed
\* the failed unit's permit, ran and succeeded.
C3_Witness ==
    /\ lanes = 1
    /\ \E l, m \in links :
          /\ LinkLess(l, m)
          /\ IsFailure(result[l])
          /\ result[m] = Ok

\* C4: every unit holds a permit exactly from its submission to its return,
\* on every exit path; free permits plus held permits are C; when all units
\* have finished all C permits are free.
C4_PermitAccounting ==
    SemaphoreExists =>
        /\ available + Cardinality(Holders) = lanes
        /\ Holders = Executing
        /\ (Finished = links => available = lanes)

\* Every unit of a two-link batch has returned, one of them with an error.
C4_Witness ==
    /\ SemaphoreExists
    /\ Cardinality(links) = 2
    /\ Finished = links
    /\ \E l \in links : IsFailure(result[l])
    /\ available = lanes

\* C5: for every cap C >= 1, main terminates: either setup failed, or every
\* link was submitted, every unit joined and every result printed.
C5_Terminates ==
    lanes >= 1 =>
        <>(\/ mainpc = "failed"
           \/ /\ mainpc = "done"
              /\ \A l \in links : pc[l] = "joined"
              /\ Len(results) = Cardinality(links))

\* main is done with more links than lanes: an acquire had to wait.
C5_Witness ==
    /\ mainpc = "done"
    /\ lanes = 1
    /\ Cardinality(links) = 2

\* C6: the semaphore is never created with zero permits.
C6_CapacityAtLeastOne ==
    SemaphoreExists => available + Cardinality(Holders) >= 1

\* The position of a transfer is at most its declared, non-zero total.
C7_PositionBounded ==
    \A l \in links : total[l] > 0 => position[l] <= total[l]

\* C7: the progress position of a transfer never decreases from one step
\* to the next, and never exceeds a declared, non-zero total.
C7_Progress ==
    /\ []C7_PositionBounded
    /\ [][\A l \in links : position'[l] >= position[l]]_vars

\* The body delivered more bytes than declared and the position stayed at
\* the total.
C7_Witness ==
    \E l \in links :
        /\ total[l] > 0
        /\ cursor[l] > total[l]
        /\ position[l] = total[l]

\* C8: with no declared content length the position is a raw byte counter:
\* after k chunks it is the sum of their lengths.
C8_RawByteCounter ==
    \A l \in links :
        (declared[l] = NoLength /\ pc[l] \in {"stream", "write"})
            => position[l] = cursor[l]

\* C9: at the moment a unit returns success, whatever the other units do,
\* there is a file named link.name whose length is the number of bytes
\* streamed from that unit's response.
C9_FileHoldsBody ==
    [][\A l \in links :
          (result[l] = NoResult /\ result'[l] = Ok) =>
              /\ files'[l.name].exists
              /\ Len(files'[l.name].data) = cursor'[l]]_vars

\* C10: the offending link's name can be told from each reported failure
\* alone: two failures that print alike are failures of the same name.
C10_FailureNamesLink ==
    \A i, j \in DOMAIN results :
        (IsFailure(results[i].out) /\ results[i].out = results[j].out)
            => results[i].link.name = results[j].link.name

\* main has returned: Ok(()) ends the process with status 0, an Err with a
\* status other than 0.
Exited == mainpc \in {"done", "failed"}
ExitCode == IF mainpc = "done" THEN 0 ELSE 1

\* No permit taken, no task spawned, no request sent, nothing reported.
NothingStarted ==
    /\ \A l \in links : pc[l] = "queued" /\ ~permit[l]
    /\ available = 0
    /\ order = <<>>
    /\ results = <<>>

\* C11: if a setup step fails (the listing fetch, or the creation of the
\* output directory, which leaves the path absent), main returns an error,
\* the exit status is not 0, and nothing was started: no permit acquired,
\* no unit spawned, no result printed; and no step taken during setup or
\* after the abort changes a file.
C11_SetupFailureAborts ==
    /\ []((mainpc = "failed" \/
             (dirState = "absent" /\ mainpc \notin {"fetch", "mkdir"}))
            => (Exited /\ ExitCode # 0 /\ NothingStarted))
    /\ [][(mainpc \in {"fetch", "mkdir", "failed"}) => (files' = files)]_vars

\* The page gave links, the directory could not be created, main gave up.
C11_Witness ==
    /\ mainpc = "failed"
    /\ dirState = "absent"
    /\ links # {}
    /\ lanes >= 1

\* C12: whenever a unit is at File::create, the output path is a directory,
\* whatever the path was when the run began.
C12_DirBeforeCreate ==
    \A l \in links : pc[l] = "create" => dirState = "dir"

Failed == {l \in links : IsFailure(result[l])}
Succeeded == {l \in links : result[l] = Ok}
FailureLines == {i \in DOMAIN results : IsFailure(results[i].out)}
OkLines == {i \in DOMAIN results : results[i].out = Ok}

\* When main has returned Ok the exit status is 0 and the report holds one
\* failure line per failed unit and one success line per successful unit.
C13_Report ==
    mainpc = "done" =>
        /\ ExitCode = 0
        /\ Cardinality(FailureLines) = Cardinality(Failed)
        /\ Cardinality(OkLines) = Cardinality(Succeeded)
        /\ Cardinality(Failed) + Cardinality(Succeeded) = Cardinality(links)

\* C13: once setup has succeeded (main is in the for loop or the join loop)
\* main never returns an error, however many transfers fail, and when it
\* returns the exit status is 0 and the report counts every success and
\* every failure: with three links and one failure, 2 successes and 1
\* failure.
C13_ExitZero ==
    /\ []C13_Report
    /\ [][(mainpc \in {"submit", "collect"}) => (mainpc' # "failed")]_vars

\* Three links, one failed: main returned Ok with 2 successes and 1 failure.
C13_Witness ==
    /\ mainpc = "done"
    /\ ExitCode = 0
    /\ Cardinality(links) = 3
    /\ Cardinality(OkLines) = 2
    /\ Cardinality(FailureLines) = 1

\* C14: whenever main is past setup, a link is still unsubmitted and fewer
\* than C units are executing, the next turn of the for loop can be taken
\* right away: no completion and no join has to come first.
C14_WorkConserving ==
    (SemaphoreExists /\ Queued # {} /\ Cardinality(Executing) < lanes)
        => ENABLED (\E l \in Link : Submit(l))

\* Two lanes, one unit has finished (and is not joined), one link is still
\* waiting: the slot the finished unit freed is there for it.
C14_Witness ==
    /\ lanes = 2
    /\ Queued # {}
    /\ \E l \in links : pc[l] = "finished"
    /\ Cardinality(Executing) < lanes

C16_DistinctOpenFiles ==
    \A l, m \in links :
        (l # m /\ pc[l] \in {"stream", "write"} /\ pc[m] \in {"stream", "write"})
            => l.name # m.name

\* C17: nothing is reported, and no task is joined, while a link is still
\* to be submitted: the join loop runs only after the for loop.
C17_ReportAfterSubmission ==
    (results # <<>> \/ Joined # {}) =>
        (Queued = {} /\ mainpc \in {"collect", "done"})

\* One lane: the first unit has finished and its result is not printed,
\* while the next link has not been submitted yet.
C17_Witness ==
    /\ lanes = 1
    /\ results = <<>>
    /\ Queued # {}
    /\ \E l \in links : pc[l] = "finished"

\* C18: the step in which a unit's request fails leaves every file as it
\* was, and any step that changes the file of a name is the File::create
\* or the write of a unit of that name, which is past its request.
C18_RequestBeforeFile ==
    /\ [][\A l \in links :
            (pc[l] = "request" /\ IsFailure(result'[l])) => (files' = files)]_vars
    /\ [][\A n \in Names :
            (files'[n] # files[n]) =>
                (\E l \in links : /\ l.name = n
                                  /\ pc[l] \in {"create", "write"}
                                  /\ pc'[l] # pc[l])]_vars

\* A request failed and the file that was there before the run is intact.
C18_Witness ==
    \E l \in links :
        /\ result[l] = ErrRequest(l)
        /\ files[l.name] = FileOf(<<Old>>)

\* C19: at the moment a unit returns a stream or write error, its file
\* holds exactly the chunks it wrote before, in arrival order.
C19_PartialFileKept ==
    [][\A l \in links :
          (result[l] = NoResult /\
           result'[l].kind \in {"Err(stream)", "Err(write)"}) =>
              (files'[l.name] = FileOf(BodyBytes(l.url, 0, cursor'[l])))]_vars

\* collect_links has run: main is past the fetch of the listing.
LinksCollected == mainpc \in {"mkdir", "submit", "collect", "done"}

\* The positional pairs of the page.
PositionalPairs ==
    {[url |-> page.hrefs[i], name |-> page.names[i]] :
        i \in 1..Min(Len(page.hrefs), Len(page.names))}

\* C20 as stated: the links are the positional pairs, at most min(|U|, |M|)
\* of them, and two anchors with two names give a set of size 2.
C20_PairingAsStated ==
    LinksCollected =>
        /\ links = PositionalPairs
        /\ Cardinality(links) <= Min(Len(page.hrefs), Len(page.names))
        /\ (Len(page.hrefs) = 2 /\ Len(page.names) = 2)
              => Cardinality(links) = 2

\* C20, amended: the links are the positional pairs, at most min(|U|, |M|)
\* of them, and two anchors with two names give a set of size 2 when the
\* two pairs differ, and of size 1 when they are equal.
C20_Pairing ==
    LinksCollected =>
        /\ links = PositionalPairs
        /\ Cardinality(links) <= Min(Len(page.hrefs), Len(page.names))
        /\ (Len(page.hrefs) = 2 /\ Len(page.names) = 2)
              => Cardinality(links) =
                    IF page.hrefs[1] = page.hrefs[2] /\ page.names[1] = page.names[2]
                    THEN 1 ELSE 2

\* Two anchors and two names that pair to two different links.
C20_Witness ==
    /\ LinksCollected
    /\ Len(page.hrefs) = 2
    /\ Len(page.names) = 2
    /\ page.hrefs[1] # page.hrefs[2]
    /\ Cardinality(links) = 2

====
